---- MODULE Spec2Model ----
(***************************************************************************)
(* Breakout: the FixedUpdate simulation of src/src/main.rs.                *)
(*                                                                         *)
(* Units.  The fixed period is 1/HZ s.  Every position is stored           *)
(* multiplied by HZ, so that `x += v * dt` is the exact integer step       *)
(* `x += v`; sizes and velocities are in world units.  The f32 rounding of *)
(* the program is not modelled: arithmetic is exact.                       *)
(*                                                                         *)
(* Scheduling.  main() orders only check_ball_collisions after             *)
(* apply_velocity.  move_paddle has no ordering constraint, so the engine  *)
(* may run it at any point of the tick (the three systems conflict on      *)
(* Transform and therefore never overlap).  Commands (despawn) are         *)
(* deferred and applied when the FixedUpdate schedule ends.                *)
(***************************************************************************)
EXTENDS Integers, Sequences, FiniteSets, TLC

VARIABLES
    colliders,   \* entities with (Transform, Collider), in query iteration order
    balls,       \* entities with (Transform, Ball, Velocity)
    score,       \* Scoreboard.score
    input,       \* Input<KeyCode>: [A, D] pressed
    commands,    \* deferred despawn commands, entity ids in queue order
    audio,       \* AudioBundle spawns queued in the current tick
    ran,         \* the systems that have run in the current tick, in order
    collisions,  \* what the last collision pass detected, in iteration order
    ticks,       \* completed FixedUpdate runs
    limit,       \* the number of FixedUpdate runs explored
    panicked     \* a system panicked (query.single_mut() without one match)

vars == <<colliders, balls, score, input, commands, audio, ran, collisions, ticks, limit, panicked>>

\* ------------------------------------------------------------ model bounds
MaxTicks == 38

MaxHoldTicks == 50

MaxPairTicks == 2

MaxScenarioTicks == 4

\* ticks of the free-flight run: one second
MaxMotionTicks == 60

\* ticks of the long games
MaxLongTicks == 1000

\* ------------------------------------------------------------ constants
HZ == 60

LEFT_WALL == -450
RIGHT_WALL == 450
BOTTOM_WALL == -300
TOP_WALL == 300
WALL_THICKNESS == 10
WALL_BLOCK_WIDTH == RIGHT_WALL - LEFT_WALL
WALL_BLOCK_HEIGHT == TOP_WALL - BOTTOM_WALL

PADDLE_START_Y == BOTTOM_WALL + 60
PADDLE_SIZE == <<120, 20>>
PADDLE_SPEED == 500

BALL_STARTING_POSITION == <<0, -50>>
BALL_SIZE == <<30, 30>>
BALL_SPEED == 400

BRICK_SIZE == <<100, 30>>
GAP_BETWEEN_PADDLE_AND_BRICKS == 270
GAP_BETWEEN_BRICKS == 5
GAP_BETWEEN_BRICKS_AND_CEILING == 20
GAP_BETWEEN_BRICKS_AND_SIDES == 20
BRICK_HEALTH == 1

\* BALL_SPEED * (cos a, sin a) for the angles whose components are integers
RandomVelocities ==
    { <<0, 400>>, <<0, -400>>, <<240, 320>>, <<-320, -240>> }

Keys == [A : BOOLEAN, D : BOOLEAN]

Systems == {"move_paddle", "apply_velocity", "check_ball_collisions"}

\* ------------------------------------------------------------ helpers
Abs(n) == IF n < 0 THEN -n ELSE n

Min(a, b) == IF a < b THEN a ELSE b

Max(a, b) == IF a > b THEN a ELSE b

Range(s) == { s[i] : i \in 1..Len(s) }

\* a position in world units, as stored
Pos(p) == p * HZ

\* half of a size in world units, as stored
Half(s) == (s * HZ) \div 2

\* ------------------------------------------------------------ collide
\* bevy::sprite::collide_aabb::collide(a_pos, a_size, b_pos, b_size), the
\* engine function check_ball_collisions calls: which side of b was hit on
\* one axis, and how deep
x_collision(a_min, a_max, b_min, b_max) ==
    IF a_min < b_min /\ a_max > b_min
    THEN [side |-> "Left", inside |-> FALSE, depth |-> b_min - a_max]
    ELSE IF a_min < b_max /\ a_max > b_max
    THEN [side |-> "Right", inside |-> FALSE, depth |-> a_min - b_max]
    ELSE [side |-> "Inside", inside |-> TRUE, depth |-> 0]

y_collision(a_min, a_max, b_min, b_max) ==
    IF a_min < b_min /\ a_max > b_min
    THEN [side |-> "Bottom", inside |-> FALSE, depth |-> b_min - a_max]
    ELSE IF a_min < b_max /\ a_max > b_max
    THEN [side |-> "Top", inside |-> FALSE, depth |-> a_min - b_max]
    ELSE [side |-> "Inside", inside |-> TRUE, depth |-> 0]

\* y_depth.abs() < x_depth.abs(), where the depth of Inside is -infinity
depth_less(y, x) ==
    /\ ~y.inside
    /\ (x.inside \/ Abs(y.depth) < Abs(x.depth))

\* the overlap test with <= and >=: boxes that only touch collide
collide_touching(a, b) ==
    LET a_min_x == a.x - Half(a.w)
        a_max_x == a.x + Half(a.w)
        a_min_y == a.y - Half(a.h)
        a_max_y == a.y + Half(a.h)
        b_min_x == b.x - Half(b.w)
        b_max_x == b.x + Half(b.w)
        b_min_y == b.y - Half(b.h)
        b_max_y == b.y + Half(b.h)
    IN  IF a_min_x <= b_max_x /\ a_max_x >= b_min_x /\ a_min_y <= b_max_y /\ a_max_y >= b_min_y
        THEN LET x == x_collision(a_min_x, a_max_x, b_min_x, b_max_x)
                 y == y_collision(a_min_y, a_max_y, b_min_y, b_max_y)
             IN  IF depth_less(y, x) THEN y.side ELSE x.side
        ELSE "None"

collide(a, b) ==
    LET a_min_x == a.x - Half(a.w)
        a_max_x == a.x + Half(a.w)
        a_min_y == a.y - Half(a.h)
        a_max_y == a.y + Half(a.h)
        b_min_x == b.x - Half(b.w)
        b_max_x == b.x + Half(b.w)
        b_min_y == b.y - Half(b.h)
        b_max_y == b.y + Half(b.h)
    IN  IF a_min_x < b_max_x /\ a_max_x > b_min_x /\ a_min_y < b_max_y /\ a_max_y > b_min_y
        THEN LET x == x_collision(a_min_x, a_max_x, b_min_x, b_max_x)
                 y == y_collision(a_min_y, a_max_y, b_min_y, b_max_y)
             IN  IF depth_less(y, x) THEN y.side ELSE x.side
        ELSE "None"

\* ------------------------------------------------------------ setup
Entity(id, kind, x, y, size, health) ==
    [id |-> id, kind |-> kind, x |-> Pos(x), y |-> Pos(y),
     w |-> size[1], h |-> size[2], health |-> health]

spawn_paddle == Entity(1, "paddle", 0, PADDLE_START_Y, PADDLE_SIZE, 0)

spawn_ball(v) ==
    [id |-> 2, x |-> Pos(BALL_STARTING_POSITION[1]), y |-> Pos(BALL_STARTING_POSITION[2]),
     w |-> BALL_SIZE[1], h |-> BALL_SIZE[2], vx |-> v[1], vy |-> v[2]]

vertical_wall_size == <<WALL_THICKNESS, WALL_BLOCK_HEIGHT + WALL_THICKNESS>>

horizontal_wall_size == <<WALL_BLOCK_WIDTH + WALL_THICKNESS, WALL_THICKNESS>>

spawn_walls ==
    << Entity(3, "wall", LEFT_WALL, 0, vertical_wall_size, 0),
       Entity(4, "wall", RIGHT_WALL, 0, vertical_wall_size, 0),
       Entity(5, "wall", 0, BOTTOM_WALL, horizontal_wall_size, 0),
       Entity(6, "wall", 0, TOP_WALL, horizontal_wall_size, 0) >>

offset_x == LEFT_WALL + GAP_BETWEEN_BRICKS_AND_SIDES + BRICK_SIZE[1] \div 2

offset_y == BOTTOM_WALL + GAP_BETWEEN_PADDLE_AND_BRICKS + BRICK_SIZE[2] \div 2

bricks_total_width == (RIGHT_WALL - LEFT_WALL) - 2 * GAP_BETWEEN_BRICKS_AND_SIDES

bricks_total_height ==
    (TOP_WALL - BOTTOM_WALL) - GAP_BETWEEN_BRICKS_AND_CEILING - GAP_BETWEEN_PADDLE_AND_BRICKS

rows == bricks_total_height \div (BRICK_SIZE[2] + GAP_BETWEEN_BRICKS)

columns == bricks_total_width \div (BRICK_SIZE[1] + GAP_BETWEEN_BRICKS)

spawn_bricks ==
    [ n \in 1..(rows * columns) |->
        LET row == (n - 1) \div columns
            column == (n - 1) % columns
        IN  Entity(6 + n, "brick",
                   offset_x + column * (BRICK_SIZE[1] + GAP_BETWEEN_BRICKS),
                   offset_y + row * (BRICK_SIZE[2] + GAP_BETWEEN_BRICKS),
                   BRICK_SIZE, BRICK_HEALTH) ]

\* the world after Startup: the paddle, the balls, the walls and the bricks
world(ball_seq, brick_seq, keys, n) ==
    /\ colliders = <<spawn_paddle>> \o spawn_walls \o brick_seq
    /\ balls = ball_seq
    /\ score = 0
    /\ input = keys
    /\ commands = <<>>
    /\ audio = 0
    /\ ran = <<>>
    /\ collisions = <<>>
    /\ ticks = 0
    /\ limit = n
    /\ panicked = FALSE

setup(v, keys, n) == world(<<spawn_ball(v)>>, spawn_bricks, keys, n)

Init == \E v \in RandomVelocities, keys \in Keys : setup(v, keys, MaxTicks)

\* ------------------------------------------------------------ scheduling
\* a system runs once per FixedUpdate run
pending(system) == ~panicked /\ ticks < limit /\ system \notin Range(ran)

\* the .after(apply_velocity) constraint left out
ordered_nothing(system) == TRUE

\* check_ball_collisions.after(apply_velocity); nothing else is ordered
ordered(system) ==
    system = "check_ball_collisions" => "apply_velocity" \in Range(ran)

\* ------------------------------------------------------------ move_paddle
\* the right key tested first, the left key in an else branch
direction_else_if(keys) == IF keys.D THEN 1 ELSE IF keys.A THEN -1 ELSE 0

direction(keys) == (IF keys.A THEN -1 ELSE 0) + (IF keys.D THEN 1 ELSE 0)

right_bound == Pos(RIGHT_WALL) - Half(WALL_THICKNESS + PADDLE_SIZE[1])

left_bound == Pos(LEFT_WALL) + Half(WALL_THICKNESS + PADDLE_SIZE[1])

\* the .max(left bound) left out
clamp_right_only(x) == Min(x, right_bound)

\* new_x.min(right bound).max(left bound)
clamp(x) == Max(Min(x, right_bound), left_bound)

\* translation.x + direction * PADDLE_SPEED * dt
new_x(x, keys) == clamp(x + direction(keys) * PADDLE_SPEED)

\* the With<Paddle> filter left out
paddle_query_unfiltered == 1..Len(colliders)

\* Query<&mut Transform, With<Paddle>>
paddle_query == { i \in 1..Len(colliders) : colliders[i].kind = "paddle" }

\* the ball carried along: its x set to the paddle's new x
move_paddle_carries_ball ==
    /\ pending("move_paddle") /\ ordered("move_paddle")
    /\ IF Cardinality(paddle_query) # 1
       THEN /\ panicked' = TRUE
            /\ UNCHANGED <<colliders, balls, ran>>
       ELSE /\ LET i == CHOOSE i \in paddle_query : TRUE
               IN  /\ colliders' = [colliders EXCEPT ![i].x = new_x(@, input)]
                   /\ balls' = [k \in 1..Len(balls) |->
                                    [balls[k] EXCEPT !.x = new_x(colliders[i].x, input)]]
            /\ ran' = Append(ran, "move_paddle")
            /\ UNCHANGED panicked
    /\ UNCHANGED <<score, input, commands, audio, collisions, ticks, limit>>

\* new_x assigned to translation.y
move_paddle_translation_y ==
    /\ pending("move_paddle") /\ ordered("move_paddle")
    /\ IF Cardinality(paddle_query) # 1
       THEN /\ panicked' = TRUE
            /\ UNCHANGED <<colliders, ran>>
       ELSE /\ LET i == CHOOSE i \in paddle_query : TRUE
               IN  colliders' = [colliders EXCEPT ![i].y = new_x(colliders[i].x, input)]
            /\ ran' = Append(ran, "move_paddle")
            /\ UNCHANGED panicked
    /\ UNCHANGED <<balls, score, input, commands, audio, collisions, ticks, limit>>

move_paddle ==
    /\ pending("move_paddle") /\ ordered("move_paddle")
    /\ IF Cardinality(paddle_query) # 1
       THEN /\ panicked' = TRUE
            /\ UNCHANGED <<colliders, ran>>
       ELSE /\ LET i == CHOOSE i \in paddle_query : TRUE
               IN  colliders' = [colliders EXCEPT ![i].x = new_x(@, input)]
            /\ ran' = Append(ran, "move_paddle")
            /\ UNCHANGED panicked
    /\ UNCHANGED <<balls, score, input, commands, audio, collisions, ticks, limit>>

\* ------------------------------------------------------------ apply_velocity
\* dt left out: translation += velocity
moved_without_dt(b) == [b EXCEPT !.x = @ + b.vx * HZ, !.y = @ + b.vy * HZ]

\* translation += velocity * dt
moved(b) == [b EXCEPT !.x = @ + b.vx, !.y = @ + b.vy]

apply_velocity ==
    /\ pending("apply_velocity") /\ ordered("apply_velocity")
    /\ balls' = [k \in 1..Len(balls) |-> moved(balls[k])]
    /\ ran' = Append(ran, "apply_velocity")
    /\ UNCHANGED <<colliders, score, input, commands, audio, collisions, ticks, limit, panicked>>

\* ------------------------------------------------------------ check_ball_collisions
\* the velocity guards left out
reflect_x_unguarded(collision, vx) == collision \in {"Left", "Right"}

\* the signs of the guards exchanged
reflect_x_swapped(collision, vx) ==
    \/ collision = "Left" /\ vx < 0
    \/ collision = "Right" /\ vx > 0

reflect_x(collision, vx) ==
    \/ collision = "Left" /\ vx > 0
    \/ collision = "Right" /\ vx < 0

\* the Top case left out
reflect_y_bottom_only(collision, vy) == collision = "Bottom" /\ vy > 0

reflect_y(collision, vy) ==
    \/ collision = "Top" /\ vy < 0
    \/ collision = "Bottom" /\ vy > 0

\* the decrement left out
damage_none(health) == Max(health, 0)

\* brick.health = (brick.health - 1).max(0)
damage(health) == Max(health - 1, 0)

\* if brick.health < 0 { despawn }
destroyed_below_zero(health) == health < 0

\* if brick.health <= 0 { despawn }
destroyed(health) == health <= 0

\* every collider treated as a brick
opt_brick_always(other) == TRUE

\* Option<&mut Brick> is Some
opt_brick(other) == other.kind = "brick"

\* score.score += 2
scored_twice(n) == n + 2

\* score.score += 1
scored(n) == n + 1

\* a reflected component loses half of its magnitude
resolve_damped(acc, k, i) ==
    LET ball == acc.balls[k]
        other == acc.store[i]
        collision == collide(ball, other)
    IN  IF collision = "None" THEN acc
        ELSE
        LET vx == IF reflect_x(collision, ball.vx) THEN -(ball.vx \div 2) ELSE ball.vx
            vy == IF reflect_y(collision, ball.vy) THEN -(ball.vy \div 2) ELSE ball.vy
            health == IF opt_brick(other) THEN damage(other.health) ELSE other.health
            hit == [ball |-> ball.id, other |-> other.id, kind |-> other.kind,
                    side |-> collision,
                    vel |-> <<ball.vx, ball.vy>>, new_vel |-> <<vx, vy>>,
                    health |-> other.health, new_health |-> health,
                    score |-> acc.score,
                    new_score |-> IF opt_brick(other) THEN scored(acc.score) ELSE acc.score]
        IN  [balls |-> [acc.balls EXCEPT ![k].vx = vx, ![k].vy = vy],
             store |-> [acc.store EXCEPT ![i].health = health],
             score |-> hit.new_score,
             commands |-> IF opt_brick(other) /\ destroyed(health)
                          THEN Append(acc.commands, other.id)
                          ELSE acc.commands,
             log |-> Append(acc.log, hit)]

\* the brick handling nested in `if reflect_x || reflect_y`
resolve_damage_on_reflection(acc, k, i) ==
    LET ball == acc.balls[k]
        other == acc.store[i]
        collision == collide(ball, other)
    IN  IF collision = "None" THEN acc
        ELSE
        LET vx == IF reflect_x(collision, ball.vx) THEN -ball.vx ELSE ball.vx
            vy == IF reflect_y(collision, ball.vy) THEN -ball.vy ELSE ball.vy
            struck == opt_brick(other) /\ <<vx, vy>> # <<ball.vx, ball.vy>>
            health == IF struck THEN damage(other.health) ELSE other.health
            hit == [ball |-> ball.id, other |-> other.id, kind |-> other.kind,
                    side |-> collision,
                    vel |-> <<ball.vx, ball.vy>>, new_vel |-> <<vx, vy>>,
                    health |-> other.health, new_health |-> health,
                    score |-> acc.score,
                    new_score |-> IF struck THEN scored(acc.score) ELSE acc.score]
        IN  [balls |-> [acc.balls EXCEPT ![k].vx = vx, ![k].vy = vy],
             store |-> [acc.store EXCEPT ![i].health = health],
             score |-> hit.new_score,
             commands |-> IF struck /\ destroyed(health)
                          THEN Append(acc.commands, other.id)
                          ELSE acc.commands,
             log |-> Append(acc.log, hit)]

\* the body of the inner loop: ball k against collider i
resolve(acc, k, i) ==
    LET ball == acc.balls[k]
        other == acc.store[i]
        collision == collide(ball, other)
    IN  IF collision = "None" THEN acc
        ELSE
        LET vx == IF reflect_x(collision, ball.vx) THEN -ball.vx ELSE ball.vx
            vy == IF reflect_y(collision, ball.vy) THEN -ball.vy ELSE ball.vy
            health == IF opt_brick(other) THEN damage(other.health) ELSE other.health
            hit == [ball |-> ball.id, other |-> other.id, kind |-> other.kind,
                    side |-> collision,
                    vel |-> <<ball.vx, ball.vy>>, new_vel |-> <<vx, vy>>,
                    health |-> other.health, new_health |-> health,
                    score |-> acc.score,
                    new_score |-> IF opt_brick(other) THEN scored(acc.score) ELSE acc.score]
        IN  [balls |-> [acc.balls EXCEPT ![k].vx = vx, ![k].vy = vy],
             store |-> [acc.store EXCEPT ![i].health = health],
             score |-> hit.new_score,
             commands |-> IF opt_brick(other) /\ destroyed(health)
                          THEN Append(acc.commands, other.id)
                          ELSE acc.commands,
             log |-> Append(acc.log, hit)]

\* the "play sound" block after the brick handling is commented out: the pass
\* queues no AudioBundle spawn, whatever it detected
play_sound(log) == 0

\* the colliders for which collide() returns Some: the ball's position is not
\* written during the pass, so this does not depend on the earlier iterations
overlapping(ball, store) ==
    { i \in 1..Len(store) : collide(ball, store[i]) # "None" }

\* a break after the first collision found
collider_loop_break(acc, k, todo) ==
    IF todo = {} THEN acc
    ELSE resolve(acc, k, CHOOSE i \in todo : \A j \in todo : i <= j)

\* for other in collider_query { ... }: the iterations in `todo`, in query order
RECURSIVE collider_loop(_, _, _)
collider_loop(acc, k, todo) ==
    IF todo = {} THEN acc
    ELSE LET i == CHOOSE i \in todo : \A j \in todo : i <= j
         IN  CHOOSE out \in { collider_loop(next, k, rest) :
                                next \in {resolve(acc, k, i)}, rest \in {todo \ {i}} } : TRUE

\* for ball in ball_query { ... }
RECURSIVE collision_pass(_, _)
collision_pass(acc, k) ==
    IF k > Len(acc.balls) THEN acc
    ELSE CHOOSE out \in { collision_pass(next, k + 1) :
                           next \in {collider_loop(acc, k, overlapping(acc.balls[k], acc.store))} } : TRUE

check_ball_collisions ==
    /\ pending("check_ball_collisions") /\ ordered("check_ball_collisions")
    /\ \E acc \in {collision_pass([balls |-> balls, store |-> colliders, score |-> score,
                                   commands |-> commands, log |-> <<>>], 1)} :
           /\ balls' = acc.balls
           /\ colliders' = acc.store
           /\ score' = acc.score
           /\ commands' = acc.commands
           /\ collisions' = acc.log
           /\ audio' = audio + play_sound(acc.log)
    /\ ran' = Append(ran, "check_ball_collisions")
    /\ UNCHANGED <<input, ticks, limit, panicked>>

\* ------------------------------------------------------------ end of the schedule
\* commands.entity(id).despawn(): the row is swap-removed from its table
despawn(store, id) ==
    LET found == { i \in 1..Len(store) : store[i].id = id }
    IN  IF found = {} THEN store
        ELSE
        LET i == CHOOSE i \in found : TRUE
            table == { j \in 1..Len(store) : store[j].kind = store[i].kind }
            last == CHOOSE j \in table : \A m \in table : m <= j
            swapped == [store EXCEPT ![i] = store[last]]
        IN  SubSeq(swapped, 1, last - 1) \o SubSeq(swapped, last + 1, Len(swapped))

\* the queued commands dropped
apply_commands_dropped(store, queue) == store

RECURSIVE apply_commands(_, _)
apply_commands(store, queue) ==
    IF queue = <<>> THEN store
    ELSE apply_commands(despawn(store, Head(queue)), Tail(queue))

\* the FixedUpdate schedule ends: deferred commands are applied; the keyboard
\* state seen by the next run is whatever is held then
apply_deferred(held) ==
    /\ ~panicked
    /\ Range(ran) = Systems
    /\ colliders' = apply_commands(colliders, commands)
    /\ commands' = <<>>
    /\ audio' = 0
    /\ ran' = <<>>
    /\ ticks' = ticks + 1
    /\ input' \in held
    /\ UNCHANGED <<balls, score, collisions, limit, panicked>>

\* ------------------------------------------------------------ the game
Next ==
    \/ move_paddle
    \/ apply_velocity
    \/ check_ball_collisions
    \/ apply_deferred(Keys)

Spec == Init /\ [][Next]_vars

\* ------------------------------------------------------------ the keys held throughout
\* the same keys are down in every tick; the schedule keeps running
InitHold == \E v \in RandomVelocities, keys \in Keys : setup(v, keys, MaxHoldTicks)

NextHold ==
    \/ move_paddle
    \/ apply_velocity
    \/ check_ball_collisions
    \/ apply_deferred({input})

SpecHold == InitHold /\ [][NextHold]_vars /\ WF_vars(NextHold)

\* ------------------------------------------------------------ one ball, one brick
\* the arena with a single brick at (50, 0) and the ball placed around it
PairBrickPos == <<50, 0>>

PairBallX == {-15, -5, 50, 105, 115}

PairBallY == {-30, -20, 0, 20, 30}

PairVelocities ==
    { <<400, 0>>, <<-400, 0>>, <<0, 400>>, <<0, -400>>,
      <<240, 320>>, <<-240, 320>>, <<240, -320>>, <<-240, -320>> }

PairHealth == {1, 2}

ball_at(x, y, v) == [spawn_ball(v) EXCEPT !.x = Pos(x), !.y = Pos(y)]

brick_at(p, health) == Entity(7, "brick", p[1], p[2], BRICK_SIZE, health)

InitPair ==
    \E x \in PairBallX, y \in PairBallY, v \in PairVelocities, health \in PairHealth, keys \in Keys :
        world(<<ball_at(x, y, v)>>, <<brick_at(PairBrickPos, health)>>, keys, MaxPairTicks)

SpecPair == InitPair /\ [][Next]_vars

\* ------------------------------------------------------------ the scenario
\* ball at (0,0) moving (400,0); brick at (50,0) with health 1
InitScenario ==
    \E keys \in Keys :
        world(<<ball_at(0, 0, <<400, 0>>)>>, <<brick_at(PairBrickPos, BRICK_HEALTH)>>,
              keys, MaxScenarioTicks)

SpecScenario == InitScenario /\ [][Next]_vars

\* the fixed-timestep schedule keeps running its systems
SpecScenarioFair == InitScenario /\ [][Next]_vars /\ WF_vars(Next)

\* ------------------------------------------------------------ free flight
\* the arena as set up, the ball launched at (100, 0) from its starting position:
\* it flies between the paddle and the bricks for a second
MotionVelocity == <<100, 0>>

InitMotion ==
    \E keys \in Keys :
        world(<<ball_at(BALL_STARTING_POSITION[1], BALL_STARTING_POSITION[2], MotionVelocity)>>,
              spawn_bricks, keys, MaxMotionTicks)

SpecMotion == InitMotion /\ [][Next]_vars

\* ------------------------------------------------------------ under the gap
\* the arena as set up, the ball placed under the gap between the bricks of
\* columns 3 and 4 of the lowest row (x in [-115, -15] and [-10, 90], bottom
\* faces at y = -30)
GapBallX == {-25, -13, -4, 0}

GapBallY == {-46, -40, -36}

InitGap ==
    \E x \in GapBallX, y \in GapBallY, v \in PairVelocities, keys \in Keys :
        world(<<ball_at(x, y, v)>>, spawn_bricks, keys, MaxPairTicks)

SpecGap == InitGap /\ [][Next]_vars

\* ------------------------------------------------------------ long games
\* BALL_SPEED * (cos a, sin a) for every angle whose components are integers
Directions ==
    { <<sx * v[1], sy * v[2]>> :
        sx \in {-1, 1}, sy \in {-1, 1},
        v \in { <<0, 400>>, <<400, 0>>, <<240, 320>>, <<320, 240>>, <<112, 384>>, <<384, 112>> } }

\* a game of MaxTicks ticks, or a game of MaxLongTicks ticks from any of the
\* directions
InitArena ==
    \/ Init
    \/ \E v \in Directions, keys \in Keys : setup(v, keys, MaxLongTicks)

\* in the games of MaxTicks ticks the keys change freely from tick to tick; in
\* the long games the keys down at the start are held throughout
held_next == IF limit = MaxTicks THEN Keys ELSE {input}

NextArena ==
    \/ move_paddle
    \/ apply_velocity
    \/ check_ball_collisions
    \/ apply_deferred(held_next)

SpecArena == InitArena /\ [][NextArena]_vars

\* ------------------------------------------------------------ vocabulary of the claims
Ids(store) == { store[i].id : i \in 1..Len(store) }

Live(kind) == { i \in 1..Len(colliders) : colliders[i].kind = kind }

Hits == Range(collisions)

TickBoundary == ran = <<>>

Ran(system) == system \in Range(ran)

Before(s1, s2) ==
    \E i, j \in 1..Len(ran) : i < j /\ ran[i] = s1 /\ ran[j] = s2

PassStep == ran' = Append(ran, "check_ball_collisions")

\* the (ball, brick) pairs that overlap
BrickOverlaps ==
    { <<k, i>> \in (1..Len(balls)) \X (1..Len(colliders)) :
        colliders[i].kind = "brick" /\ collide(balls[k], colliders[i]) # "None" }

\* ------------------------------------------------------------ C1
\* C1: a collision with a brick of health 1 raises the score by exactly 1 for
\* that strike, and once the tick has ended the brick is no longer in the store.
C1_BrickDestroyed ==
    /\ collisions # <<>> => score = collisions[Len(collisions)].new_score
    /\ \A hit \in Hits :
            hit.kind = "brick" =>
                /\ hit.new_score = hit.score + 1
                /\ (hit.health = 1 /\ ~Ran("check_ball_collisions")) => hit.other \notin Ids(colliders)

C1_Witness ==
    /\ TickBoundary
    /\ \E hit \in Hits : hit.kind = "brick" /\ hit.health = 1 /\ hit.other \notin Ids(colliders)
    /\ score >= 1

\* ------------------------------------------------------------ C2
\* C2: no brick ever has negative health, and at a tick boundary no brick in
\* the store has health <= 0.
C2_HealthInvariant ==
    \A i \in Live("brick") :
        /\ colliders[i].health >= 0
        /\ TickBoundary => colliders[i].health > 0

C2_Witness ==
    /\ TickBoundary
    /\ \E hit \in Hits : hit.kind = "brick" /\ hit.new_health = 0
    /\ Live("brick") # {}

\* ------------------------------------------------------------ C3
\* C3: a detected collision negates vx iff (Left and vx > 0) or (Right and
\* vx < 0), negates vy iff (Top and vy < 0) or (Bottom and vy > 0), and changes
\* nothing else; Inside changes nothing.
C3_Reflection ==
    \A hit \in Hits :
        LET vx == hit.vel[1]
            vy == hit.vel[2]
            flip_x == (hit.side = "Left" /\ vx > 0) \/ (hit.side = "Right" /\ vx < 0)
            flip_y == (hit.side = "Top" /\ vy < 0) \/ (hit.side = "Bottom" /\ vy > 0)
        IN  /\ hit.side \in {"Left", "Right", "Top", "Bottom", "Inside"}
            /\ hit.new_vel = << IF flip_x THEN -vx ELSE vx, IF flip_y THEN -vy ELSE vy >>

C3_Witness ==
    \E hit \in Hits :
        /\ hit.side = "Left" /\ hit.vel[1] > 0 /\ hit.vel[2] < 0
        /\ hit.new_vel = << -hit.vel[1], hit.vel[2] >>
        /\ \E k \in 1..Len(balls) : balls[k].id = hit.ball /\ balls[k].vx = -hit.vel[1]

\* ------------------------------------------------------------ C4
\* C4: the paddle's x is always within [left_bound, right_bound] = [-385, 385];
\* with move-left alone held in every tick it reaches -385 and stays there.
PaddleInBounds ==
    \A i \in Live("paddle") :
        /\ colliders[i].x >= Pos(-385)
        /\ colliders[i].x <= Pos(385)

LeftHeld == input.A /\ ~input.D

PaddleAtLeftBound == \A i \in Live("paddle") : colliders[i].x = Pos(-385)

C4_PaddleClamp == [](PaddleInBounds) /\ (LeftHeld => <>[]PaddleAtLeftBound)

C4_Witness == LeftHeld /\ PaddleAtLeftBound /\ Ran("move_paddle") /\ ticks > 47

\* ------------------------------------------------------------ C5
\* C5: the score starts at 0 and changes only in check_ball_collisions, by one
\* for each overlapping (ball, brick) pair of that pass; it never decreases.
C5_ScoreSteps ==
    /\ score = 0
    /\ [][ /\ score' >= score
           /\ score' # score => PassStep
           /\ PassStep => score' = score + Cardinality(BrickOverlaps) ]_vars

C5_Witness ==
    /\ score >= 1
    /\ \E hit \in Hits : hit.kind = "paddle" /\ hit.new_score = hit.score

\* ------------------------------------------------------------ C6
\* C6: in every tick move_paddle runs before apply_velocity and before
\* check_ball_collisions.
C6_PaddleFirst == ran # <<>> => ran[1] = "move_paddle"

\* ------------------------------------------------------------ C7
\* C7: check_ball_collisions runs only after apply_velocity has run in the
\* same tick, so the pass tests the positions already advanced for that tick.
C7_CollisionsAfterVelocity ==
    Ran("check_ball_collisions") => Before("apply_velocity", "check_ball_collisions")

C7_Witness ==
    /\ ran = <<"apply_velocity", "check_ball_collisions">>
    /\ collisions # <<>>

\* ------------------------------------------------------------ C8
\* C8: exactly one entity carries the Paddle marker in every state, and
\* move_paddle's single-match lookup never fails.
C8_OnePaddle == Cardinality(Live("paddle")) = 1 /\ ~panicked

C8_Witness ==
    /\ Ran("move_paddle")
    /\ ticks >= 1
    /\ \E hit \in Hits : hit.kind = "paddle"
    /\ Cardinality(Live("paddle")) = 1

\* ------------------------------------------------------------ C9
\* C9: only bricks are removed: the four walls are always present exactly as
\* spawned, and the number of balls is the number spawned (one), also after a
\* ball has reached the bottom wall.
C9_OnlyBricksRemoved ==
    /\ \A n \in 1..Len(spawn_walls) : \E i \in Live("wall") : colliders[i] = spawn_walls[n]
    /\ Cardinality(Live("wall")) = Len(spawn_walls)
    /\ Len(balls) = 1

C9_Witness ==
    /\ TickBoundary
    /\ \E hit \in Hits : hit.kind = "wall" /\ hit.other = 5
    /\ Len(balls) = 1
    /\ Len(colliders) < Len(spawn_bricks) + 5

\* ------------------------------------------------------------ C10
\* C10 as stated: after the first tick of the scenario the ball is at (6.67, 0),
\* the score is 0, the brick is live and the velocity is still (400, 0).
AfterFirstTick == ticks = 1 /\ TickBoundary

C10_NoCollisionYet ==
    AfterFirstTick =>
        /\ balls[1].x = 400 /\ balls[1].y = 0
        /\ collisions = <<>>
        /\ score = 0
        /\ Live("brick") # {}
        /\ <<balls[1].vx, balls[1].vy>> = <<400, 0>>

\* C10 amended: after the first tick the ball is at (6.67, 0) and the collision
\* has already been detected, as Left: the velocity is (-400, 0), the score is 1
\* and the brick is gone.
C10_CollisionInFirstTick ==
    AfterFirstTick =>
        /\ balls[1].x = 400 /\ balls[1].y = 0
        /\ Len(collisions) = 1 /\ collisions[1].side = "Left" /\ collisions[1].kind = "brick"
        /\ score = 1
        /\ Live("brick") = {}
        /\ <<balls[1].vx, balls[1].vy>> = <<-400, 0>>

C10_Witness == AfterFirstTick /\ score = 1 /\ Live("brick") = {}

\* ------------------------------------------------------------ C11
\* C11: running ticks of the scenario eventually ends a tick in which the
\* collision was classified Left, with the velocity (-400, 0), the score 1 and
\* the brick removed.
ScenarioOutcome ==
    /\ TickBoundary
    /\ \E hit \in Hits : hit.kind = "brick" /\ hit.side = "Left"
    /\ <<balls[1].vx, balls[1].vy>> = <<-400, 0>>
    /\ score = 1
    /\ Live("brick") = {}

C11_ScenarioOutcome == <>ScenarioOutcome

C11_Witness == ScenarioOutcome /\ ticks >= 1 /\ Len(collisions) = 1

\* ------------------------------------------------------------ C12
\* C12: apply_velocity adds exactly velocity * dt to the position of every
\* entity that has a velocity, with the same dt in every tick and no clamping,
\* and nothing else moves the ball: with velocity (100, 0) the ball is 100 to
\* the right of its start (and 0 up) after 60 ticks, whatever the paddle did.
MotionStep == ran' = Append(ran, "apply_velocity")

Position(b) == <<b.x, b.y>>

C12_Displacement ==
    /\ [][ /\ Len(balls') = Len(balls)
           /\ \A k \in 1..Len(balls) :
                Position(balls'[k]) =
                    IF MotionStep
                    THEN <<balls[k].x + balls[k].vx, balls[k].y + balls[k].vy>>
                    ELSE Position(balls[k]) ]_vars
    /\ [](TickBoundary =>
            Position(balls[1]) = <<Pos(BALL_STARTING_POSITION[1]) + ticks * MotionVelocity[1],
                                   Pos(BALL_STARTING_POSITION[2])>>)
    /\ []((TickBoundary /\ ticks = HZ) =>
            /\ balls[1].x - Pos(BALL_STARTING_POSITION[1]) = Pos(100)
            /\ balls[1].y - Pos(BALL_STARTING_POSITION[2]) = 0)

C12_Witness ==
    /\ TickBoundary /\ ticks = HZ
    /\ balls[1].x = Pos(100)
    /\ <<balls[1].vx, balls[1].vy>> = MotionVelocity
    /\ \E i \in Live("paddle") : colliders[i].x # 0

\* ------------------------------------------------------------ C13
\* C13: for boxes with |a.x - b.x| >= (a.w + b.w)/2 or |a.y - b.y| >= (a.h + b.h)/2
\* (apart, or only touching) collide returns None, and the pass leaves that
\* pair alone: no collision is resolved for it, the collider keeps its health
\* and is not queued for removal, and a ball (the score) with no other
\* overlap keeps its velocity (its value).
Separated(a, b) ==
    \/ Abs(a.x - b.x) * 2 >= (a.w + b.w) * HZ
    \/ Abs(a.y - b.y) * 2 >= (a.h + b.h) * HZ

Touching(a, b) ==
    \/ Abs(a.x - b.x) * 2 = (a.w + b.w) * HZ /\ Abs(a.y - b.y) * 2 < (a.h + b.h) * HZ
    \/ Abs(a.y - b.y) * 2 = (a.h + b.h) * HZ /\ Abs(a.x - b.x) * 2 < (a.w + b.w) * HZ

C13_SeparatedUntouched ==
    [][ PassStep =>
          /\ \A k \in 1..Len(balls), i \in 1..Len(colliders) :
                Separated(balls[k], colliders[i]) =>
                    /\ collide(balls[k], colliders[i]) = "None"
                    /\ ~\E n \in 1..Len(collisions') :
                            /\ collisions'[n].ball = balls[k].id
                            /\ collisions'[n].other = colliders[i].id
          /\ \A i \in 1..Len(colliders) :
                (\A k \in 1..Len(balls) : Separated(balls[k], colliders[i])) =>
                    /\ colliders'[i] = colliders[i]
                    /\ colliders[i].id \in Range(commands') => colliders[i].id \in Range(commands)
          /\ \A k \in 1..Len(balls) :
                (\A i \in 1..Len(colliders) : Separated(balls[k], colliders[i])) =>
                    balls'[k] = balls[k]
          /\ (\A k \in 1..Len(balls), i \in Live("brick") : Separated(balls[k], colliders[i])) =>
                    score' = score ]_vars

C13_Witness ==
    /\ Ran("check_ball_collisions")
    /\ collisions = <<>>
    /\ score = 0
    /\ \E i \in Live("brick") : Touching(balls[1], colliders[i]) /\ colliders[i].health = BRICK_HEALTH

\* ------------------------------------------------------------ C14
\* C14: in a tick whose collision pass destroys a brick the pass emits a
\* collision notification for the sound, and in a tick without such a
\* collision it emits none.
BrickDestroyedThisTick ==
    \E hit \in Hits : hit.kind = "brick" /\ hit.new_health <= 0

C14_CollisionNotification ==
    Ran("check_ball_collisions") => (BrickDestroyedThisTick <=> audio >= 1)

\* ------------------------------------------------------------ C15
\* C15: a tick's outcome is the same under every schedule the ordering
\* constraints allow.  move_paddle writes only the paddle's x and the pass
\* never writes it, so the schedules agree exactly when the pass, which may run
\* before or after move_paddle, computes the same velocities, score, brick
\* healths and removals from the paddle's old position as from its new one.
MoveStep == ran' = Append(ran, "move_paddle")

PassOutcome(store) ==
    LET acc == collision_pass([balls |-> balls, store |-> store, score |-> score,
                               commands |-> commands, log |-> <<>>], 1)
    IN  <<acc.balls, acc.score, acc.commands,
          [i \in 1..Len(acc.store) |-> acc.store[i].health]>>

C15_ScheduleIndependent ==
    [][ (ran = <<"apply_velocity">> /\ MoveStep) =>
            PassOutcome(colliders') = PassOutcome(colliders) ]_vars

\* ------------------------------------------------------------ C16
\* C16: the pass does not stop at the first collision: every collider that
\* overlaps the ball when the pass starts is resolved, in iteration order, each
\* with the velocity the previous resolution left; every overlapping brick is
\* damaged and scored, so two overlapping bricks raise the score by 2, and the
\* velocity may be reflected more than once in the tick.
Overlap(k) == { i \in 1..Len(colliders) : ~Separated(balls[k], colliders[i]) }

Reflected(hit) == hit.new_vel # hit.vel

C16_NoEarlyTermination ==
    [][ PassStep =>
          /\ \A k \in 1..Len(balls) :
                LET over == Overlap(k)
                    log == SelectSeq(collisions', LAMBDA hit : hit.ball = balls[k].id)
                IN  /\ Len(log) = Cardinality(over)
                    /\ \A n \in 1..Len(log) :
                          /\ \E i \in over :
                                /\ colliders[i].id = log[n].other
                                /\ Cardinality({ j \in over : j <= i }) = n
                          /\ log[n].vel = IF n = 1 THEN <<balls[k].vx, balls[k].vy>>
                                                  ELSE log[n - 1].new_vel
                    /\ Len(log) > 0 => <<balls'[k].vx, balls'[k].vy>> = log[Len(log)].new_vel
          /\ \A i \in Live("brick") :
                colliders'[i].health =
                    Max(colliders[i].health
                          - Cardinality({ k \in 1..Len(balls) : ~Separated(balls[k], colliders[i]) }), 0)
          /\ score' = score + Cardinality({ <<k, i>> \in (1..Len(balls)) \X Live("brick") :
                                              ~Separated(balls[k], colliders[i]) })
      ]_vars

C16_Witness ==
    /\ Ran("check_ball_collisions")
    /\ Len(collisions) = 2
    /\ \A n \in 1..2 : collisions[n].kind = "brick" /\ Reflected(collisions[n])
    /\ collisions[2].vel = collisions[1].new_vel
    /\ score = collisions[1].score + 2
    /\ Len(commands) = 2

\* ------------------------------------------------------------ C17
\* C17: every detected collision with a brick scores 1 and takes 1 from the
\* brick's health (floored at 0), and the brick is removed at the end of the
\* tick exactly if its health is then <= 0, whether or not the collision
\* reflected the ball: also when the side is Inside or the velocity guard of
\* the side is false, where the velocity stays as it was.
GuardHolds(hit) ==
    \/ hit.side = "Left" /\ hit.vel[1] > 0
    \/ hit.side = "Right" /\ hit.vel[1] < 0
    \/ hit.side = "Top" /\ hit.vel[2] < 0
    \/ hit.side = "Bottom" /\ hit.vel[2] > 0

C17_DamageRegardless ==
    \A hit \in Hits :
        hit.kind = "brick" =>
            /\ ~GuardHolds(hit) => hit.new_vel = hit.vel
            /\ hit.new_score = hit.score + 1
            /\ hit.new_health = Max(hit.health - 1, 0)
            /\ Ran("check_ball_collisions") =>
                    (hit.other \in Range(commands) <=> hit.new_health <= 0)
            /\ ~Ran("check_ball_collisions") =>
                    IF hit.new_health <= 0
                    THEN hit.other \notin Ids(colliders)
                    ELSE \E i \in Live("brick") :
                            colliders[i].id = hit.other /\ colliders[i].health = hit.new_health

C17_Witness ==
    /\ TickBoundary
    /\ \E hit \in Hits :
            /\ hit.kind = "brick" /\ hit.side = "Inside" /\ hit.health = 1
            /\ hit.new_vel = hit.vel
            /\ score = hit.score + 1
            /\ hit.other \notin Ids(colliders)

\* ------------------------------------------------------------ C18
\* C18: move_paddle moves the paddle by the net direction of the held keys,
\* -1 for left plus +1 for right, a value in {-1, 0, 1}; with both keys or
\* neither held the paddle's x after the step is its x before.
NetDirection ==
    (IF input.A THEN -1 ELSE 0) + (IF input.D THEN 1 ELSE 0)

C18_NetDirection ==
    [][ MoveStep =>
          /\ NetDirection \in {-1, 0, 1}
          /\ \A i \in Live("paddle") :
                /\ colliders'[i].x =
                        Max(Min(colliders[i].x + NetDirection * PADDLE_SPEED, Pos(385)), Pos(-385))
                /\ input.A = input.D => colliders'[i].x = colliders[i].x ]_vars

C18_Witness ==
    /\ Ran("move_paddle")
    /\ input.A /\ input.D
    /\ ticks >= 1
    /\ \E i \in Live("paddle") : colliders[i].x = 2 * PADDLE_SPEED

\* ------------------------------------------------------------ C19
\* C19: the paddle's y is PADDLE_START_Y = -240 in every state: move_paddle
\* writes only its x, no other step changes the paddle, and a collision with
\* the paddle changes nothing but the ball's velocity.
C19_PaddleHeight ==
    /\ [](\A i \in Live("paddle") : colliders[i].y = Pos(-240))
    /\ [](\A hit \in Hits :
            hit.kind = "paddle" => hit.new_health = hit.health /\ hit.new_score = hit.score)
    /\ [][ \A i \in Live("paddle") :
              /\ i <= Len(colliders')
              /\ colliders'[i] = [colliders[i] EXCEPT !.x = colliders'[i].x]
              /\ ~MoveStep => colliders'[i] = colliders[i] ]_vars
    /\ [][ (PassStep /\ \A n \in 1..Len(collisions') : collisions'[n].kind = "paddle") =>
              /\ colliders' = colliders
              /\ score' = score
              /\ commands' = commands
              /\ \A k \in 1..Len(balls) : Position(balls'[k]) = Position(balls[k]) ]_vars

C19_Witness ==
    /\ Ran("move_paddle") /\ Ran("check_ball_collisions")
    /\ \E hit \in Hits : hit.kind = "paddle" /\ Reflected(hit)
    /\ \E i \in Live("paddle") : colliders[i].x # 0 /\ colliders[i].y = Pos(PADDLE_START_Y)

\* ------------------------------------------------------------ C20
\* C20: with one ball and bricks of initial health 1, at every tick boundary
\* the score plus the number of live bricks is the number of bricks set up and
\* the score is the number of bricks destroyed; no brick is scored twice; the
\* number of live bricks never increases.
Destroyed == { n \in 1..Len(spawn_bricks) : spawn_bricks[n].id \notin Ids(colliders) }

LiveBricks == Cardinality(Live("brick"))

C20_Conservation ==
    /\ [](TickBoundary =>
            /\ score + LiveBricks = Len(spawn_bricks)
            /\ score = Cardinality(Destroyed))
    /\ [](\A n, m \in 1..Len(collisions) :
            (n # m /\ collisions[n].kind = "brick") => collisions[n].other # collisions[m].other)
    /\ [](~Ran("check_ball_collisions") =>
            \A hit \in Hits : hit.kind = "brick" => hit.other \notin Ids(colliders))
    /\ [][ LiveBricks' <= LiveBricks ]_vars

C20_Witness ==
    /\ TickBoundary
    /\ ticks >= 2
    /\ score = 1
    /\ Cardinality(Destroyed) = 1
    /\ LiveBricks = Len(spawn_bricks) - 1

\* ------------------------------------------------------------ C21
\* C21: |vx| and |vy| of the ball are in every state what they were after
\* setup: a collision only flips the sign of a component, no step changes a
\* magnitude, and the speed stays BALL_SPEED.
C21_SpeedPreserved ==
    /\ [](\A k \in 1..Len(balls) :
            balls[k].vx * balls[k].vx + balls[k].vy * balls[k].vy = BALL_SPEED * BALL_SPEED)
    /\ [](\A hit \in Hits :
            /\ hit.new_vel[1] \in {hit.vel[1], -hit.vel[1]}
            /\ hit.new_vel[2] \in {hit.vel[2], -hit.vel[2]})
    /\ [][ /\ Len(balls') = Len(balls)
           /\ \A k \in 1..Len(balls) :
                /\ Abs(balls'[k].vx) = Abs(balls[k].vx)
                /\ Abs(balls'[k].vy) = Abs(balls[k].vy)
                /\ ~PassStep => <<balls'[k].vx, balls'[k].vy>> = <<balls[k].vx, balls[k].vy>> ]_vars

C21_Witness ==
    /\ TickBoundary
    /\ score = 1
    /\ \E hit \in Hits : hit.kind = "paddle" /\ Reflected(hit)
    /\ Abs(balls[1].vx) = 240 /\ Abs(balls[1].vy) = 320

\* ------------------------------------------------------------ C22
\* C22: at every tick boundary the centre of the ball is strictly inside the
\* arena, LEFT_WALL < x < RIGHT_WALL and BOTTOM_WALL < y < TOP_WALL, for
\* every initial direction and whatever the keys do; a ball that reaches the
\* bottom wall leaves the collision moving up.
InArena(b) ==
    /\ Pos(LEFT_WALL) < b.x /\ b.x < Pos(RIGHT_WALL)
    /\ Pos(BOTTOM_WALL) < b.y /\ b.y < Pos(TOP_WALL)

BottomWall == { spawn_walls[n].id : n \in { m \in 1..Len(spawn_walls) : spawn_walls[m].y = Pos(BOTTOM_WALL) } }

C22_BallInArena ==
    /\ TickBoundary => \A k \in 1..Len(balls) : InArena(balls[k])
    /\ \A hit \in Hits : hit.other \in BottomWall => hit.new_vel[2] > 0

C22_Witness ==
    /\ TickBoundary
    /\ ticks >= 900
    /\ score >= 10
    /\ \E hit \in Hits : hit.other \in BottomWall /\ hit.vel[2] < 0
    /\ balls[1].vy > 0 /\ InArena(balls[1])

\* ------------------------------------------------------------ C23
\* C23: move_paddle and apply_velocity commute: from a state in which neither
\* has run in the tick, running one and then the other gives the same state in
\* either order; move_paddle writes only the paddle's x, apply_velocity only
\* the positions of the balls.
Moved(ball_seq) == [k \in 1..Len(ball_seq) |-> moved(ball_seq[k])]

Paddled(store) ==
    [i \in 1..Len(store) |->
        IF store[i].kind = "paddle" THEN [store[i] EXCEPT !.x = new_x(@, input)] ELSE store[i]]

C23_Commute ==
    [][ /\ (MoveStep /\ ~Ran("apply_velocity")) =>
              /\ <<colliders', Moved(balls')>> = <<Paddled(colliders), Moved(balls)>>
              /\ balls' = balls
              /\ UNCHANGED <<score, input, commands, audio, collisions, ticks>>
        /\ (MotionStep /\ ~Ran("move_paddle")) =>
              /\ <<Paddled(colliders'), balls'>> = <<Paddled(colliders), Moved(balls)>>
              /\ colliders' = colliders
              /\ UNCHANGED <<score, input, commands, audio, collisions, ticks>> ]_vars

C23_Witness ==
    /\ ran = <<"apply_velocity", "move_paddle">>
    /\ ticks = 0
    /\ input.D /\ ~input.A
    /\ \E i \in Live("paddle") : colliders[i].x = PADDLE_SPEED
    /\ balls[1] = Moved(<<spawn_ball(<<240, 320>>)>>)[1]

====
